---------------------------- MODULE Spec2Model ----------------------------
(***************************************************************************)
(* A model of the label-to-playlist pipeline of spotify-playlist-creator   *)
(* (src/app.js): the /start and /callback routes, the five API helpers,    *)
(* the chronological sort and the batched playlist write.                  *)
(*                                                                         *)
(* The /callback handler is an async function.  It is cut at its awaits:   *)
(* each action below is the code that runs from the moment one awaited     *)
(* promise settles (an API response or a sleep timer) up to the next       *)
(* await.  The Spotify API is the environment: every response is chosen    *)
(* nondeterministically among success and failure.                         *)
(***************************************************************************)
EXTENDS Integers, Sequences, FiniteSets

VARIABLES
    currentLabel,   \* app.js:32   the global label
    startsDone,     \* number of /start requests served so far
    pc,             \* the await the /callback handler is suspended at
    outcome,        \* how the /callback handler ended
    failedAt,       \* the API call whose promise rejected, "none" otherwise
    accessToken,    \* app.js:216
    userId,         \* app.js:220  userProfile.id
    searchLabel,    \* app.js:81   the label argument of searchAlbumsByLabel
    albums,         \* app.js:84
    offset,         \* app.js:86
    total,          \* app.js:87
    albumIdx,       \* app.js:229  position of the for-of loop
    allTracks,      \* app.js:228
    trackURIs,      \* app.js:258
    playlistLabel,  \* app.js:132  the label argument of createPlaylist
    batchStart,     \* app.js:160  i
    progress,       \* the events io.emit('progress', ...) has broadcast
    responses,      \* the bodies res.send has sent for the /callback request
    calls,          \* number of requests issued to each API endpoint
    appendSizes,    \* the number of URIs of each append request issued
    playlists,      \* remote: playlists created in the user's account
    playlist,       \* remote: the URIs on the created playlist, in order
    collected,      \* allTracks as it was when the sort was called
    searchHonest,   \* every search response so far was the honest page
    reported,       \* the totals the search pages reported, in request order
    catalogTotal,   \* remote: number of releases matching the label
    tracksPer,      \* remote: size parameter of the releases' track lists
    firstTrackNumber, \* remote: the track_number the platform gives a first track
    pending         \* the awaited promises not yet settled: requests and timers

vars == <<currentLabel, startsDone, pc, outcome, failedAt, accessToken, userId,
          searchLabel, albums, offset, total, albumIdx, allTracks, trackURIs,
          playlistLabel, batchStart, progress, responses, calls, appendSizes,
          playlists, playlist, collected, searchHonest, reported, catalogTotal,
          tracksPer, firstTrackNumber,
          pending>>

---------------------------------------------------------------------------
(* Bounds of the model *)

MaxStarts == 2
MaxSmallTotal == 2
MaxTracksPerRelease == 2
MaxSearchTotal == 101
MaxBatchTracks == 250
MaxSortReleases == 2
MaxSortTracks == 3
MaxSortLen == 4
MaxTrackNumber == 2
MaxSearchCalls == 4
MaxCollectReleases == 4

(* Program constants *)

limit == 50
BATCH_SIZE == 100

Min(a, b) == IF a < b THEN a ELSE b

Labels == {"", "A", "B"}

Apis == {"token", "profile", "search", "tracks", "create", "append"}

---------------------------------------------------------------------------
(* The remote catalog *)

\* release_date strings as the platform sends them: "YYYY", "YYYY-MM" or
\* "YYYY-MM-DD", held as the tuple of their numeric fields.
ReleaseDates ==
    << <<2020, 1, 1>>, <<2019, 6, 15>>, <<2020>>, <<2019, 6>>, <<2020, 1>> >>

Release(i) ==
    [id |-> i, release_date |-> ReleaseDates[((i - 1) % Len(ReleaseDates)) + 1]]

\* Number of tracks of release i: odd releases have tracksPer tracks, even
\* ones one fewer.
TrackCount(i) ==
    IF i % 2 = 1 THEN tracksPer
    ELSE IF tracksPer > 0 THEN tracksPer - 1 ELSE 0

\* The items of the release-tracks endpoint for one release.
AlbumTracksItems(albumId) ==
    [p \in 1..TrackCount(albumId) |->
        [uri |-> <<albumId, p>>, track_number |-> firstTrackNumber + p - 1]]

\* The page the search endpoint owes for an offset: the releases at positions
\* o .. min(o + limit, T) - 1 (0-based), and the total T.
HonestItems(o) ==
    [k \in 1..(IF o < catalogTotal THEN Min(o + limit, catalogTotal) - o ELSE 0)
        |-> Release(o + k)]

HonestPage(o) == [ok |-> TRUE, items |-> HonestItems(o), total |-> catalogTotal]

\* A page one item short of the honest one, with the same total.
ShortPage(o) ==
    [ok |-> TRUE,
     items |-> SubSeq(HonestItems(o), 1, Len(HonestItems(o)) - 1),
     total |-> catalogTotal]

FailedResponse == [ok |-> FALSE, items |-> <<>>, total |-> 0]

\* A page whose total has grown past the end of the next page: the catalog
\* is reported larger on every request.
GrowingPage(o) ==
    [ok |-> TRUE, items |-> HonestItems(o), total |-> o + limit + 1]

SearchResponses(o) == {HonestPage(o), ShortPage(o), FailedResponse}

---------------------------------------------------------------------------
(* Progress events and API bookkeeping *)

Event(msg, percent) == [msg |-> msg, percent |-> percent]

Issue(api) == [calls EXCEPT ![api] = @ + 1]

NoCalls == [a \in Apis |-> 0]

\* The promises the handler has created and that have not settled yet: the
\* requests in flight (axios.get, axios.post) and the timers running (sleep).
NothingPending == [requests |-> 0, timers |-> 0]

Request(p)  == [p EXCEPT !.requests = @ + 1]
Answered(p) == [p EXCEPT !.requests = @ - 1]
Sleep(p)    == [p EXCEPT !.timers = @ + 1]
Woken(p)    == [p EXCEPT !.timers = @ - 1]

---------------------------------------------------------------------------
(* The chronological sort, app.js:247-254 *)

\* Days from 1970-01-01 to the civil date y-m-d (proleptic Gregorian).
DaysFromCivil(y, m, d) ==
    LET yy  == IF m <= 2 THEN y - 1 ELSE y
        era == yy \div 400
        yoe == yy - era * 400
        mp  == IF m > 2 THEN m - 3 ELSE m + 9
        doy == (153 * mp + 2) \div 5 + d - 1
        doe == yoe * 365 + yoe \div 4 - yoe \div 100 + doy
    IN  era * 146097 + doe - 719468

\* Mutant: only the year of the release date is read.
GetTimeYearOnly(rd) == DaysFromCivil(rd[1], 1, 1)

\* new Date(release_date).getTime(): a date-only string is UTC midnight, and
\* a missing month or day is 1.  The value is counted in days (every such
\* time is a whole multiple of 86,400,000 ms), which keeps it in TLC's
\* integers and changes no comparison or sign of a difference.
GetTime(rd) ==
    LET y == rd[1]
        m == IF Len(rd) >= 2 THEN rd[2] ELSE 1
        d == IF Len(rd) >= 3 THEN rd[3] ELSE 1
    IN  DaysFromCivil(y, m, d)

\* Mutant: equal dates compare equal, the track number is not consulted.
CompareTracksNoTieBreak(a, b) ==
    LET dateA == GetTime(a.albumReleaseDate)
        dateB == GetTime(b.albumReleaseDate)
    IN  IF dateA = dateB THEN 0 ELSE dateA - dateB

\* Mutant: the tie-break on the track number is descending.
CompareTracksDescendingNumber(a, b) ==
    LET dateA == GetTime(a.albumReleaseDate)
        dateB == GetTime(b.albumReleaseDate)
    IN  IF dateA = dateB
        THEN b.albumTrackNumber - a.albumTrackNumber
        ELSE dateA - dateB

\* The comparator handed to allTracks.sort.
CompareTracks(a, b) ==
    LET dateA == GetTime(a.albumReleaseDate)
        dateB == GetTime(b.albumReleaseDate)
    IN  IF dateA = dateB
        THEN a.albumTrackNumber - b.albumTrackNumber
        ELSE dateA - dateB

\* The merged run, given for each element of the two runs its position in it.
\* (The positions arrive as tuples, computed once.)
PlaceTracks(left, right, posL, posR) ==
    [r \in 1..(Len(left) + Len(right)) |->
        IF \E i \in 1..Len(left) : posL[i] = r
        THEN left[CHOOSE i \in 1..Len(left) : posL[i] = r]
        ELSE right[CHOOSE j \in 1..Len(right) : posR[j] = r]]

\* Mutant: of two elements that compare equal the one of the right run comes
\* first, which reverses encounter order.
MergeTracksRightFirst(left, right) ==
    PlaceTracks(left, right,
        <<>> \o [i \in 1..Len(left) |->
                    i + Cardinality({j \in 1..Len(right) :
                                        CompareTracks(right[j], left[i]) <= 0})],
        <<>> \o [j \in 1..Len(right) |->
                    j + Cardinality({i \in 1..Len(left) :
                                        CompareTracks(left[i], right[j]) < 0})])

\* The stable merge of two sorted runs, the left one met first: an element
\* goes behind the elements of the other run that the comparator puts before
\* it, and an element of the right run also behind the ones it ties with.
\* The two position tuples are bound as elements of singleton sets, which
\* makes each a value computed once.
MergeTracks(left, right) ==
    CHOOSE merged \in
        { <<>> \o PlaceTracks(left, right, posL, posR) :
            posL \in { <<>> \o [i \in 1..Len(left) |->
                        i + Cardinality({j \in 1..Len(right) :
                                            CompareTracks(right[j], left[i]) < 0})] },
            posR \in { <<>> \o [j \in 1..Len(right) |->
                        j + Cardinality({i \in 1..Len(left) :
                                            CompareTracks(left[i], right[j]) <= 0})] } } :
        TRUE

\* Array.prototype.sort with the comparator: a stable sort (ECMAScript 2019,
\* every Node.js from v11; the README asks for v14 or later).  With a
\* comparator that is a consistent order the result of a stable sort is the
\* same whatever the algorithm; it is computed here as a merge sort.  The
\* halves and their sorted forms are bound as elements of singleton sets, so
\* that each is computed once.
RECURSIVE SortTracks(_)
SortTracks(tracks) ==
    IF Len(tracks) <= 1 THEN tracks
    ELSE CHOOSE sorted \in
            { MergeTracks(l, r) :
                l \in { SortTracks(h) :
                          h \in {SubSeq(tracks, 1, Len(tracks) \div 2)} },
                r \in { SortTracks(h) :
                          h \in {SubSeq(tracks, Len(tracks) \div 2 + 1, Len(tracks))} } } :
            TRUE

\* Mutant: the position in the array, counted from 0, is taken as the track
\* number.
AnnotateIndexAsNumber(album, items) ==
    [p \in 1..Len(items) |->
        [uri |-> items[p].uri,
         albumReleaseDate |-> album.release_date,
         albumTrackNumber |-> p - 1]]

\* app.js:231-234: each track of the response is stamped with the release's
\* date and its own track number.
Annotate(album, items) ==
    [p \in 1..Len(items) |->
        [uri |-> items[p].uri,
         albumReleaseDate |-> album.release_date,
         albumTrackNumber |-> items[p].track_number]]

\* app.js:258
MapUris(tracks) == [p \in 1..Len(tracks) |-> tracks[p].uri]

\* Mutant: the slice is one element short.
BatchShort(uris, i) == SubSeq(uris, i + 1, Min(i + BATCH_SIZE, Len(uris)) - 1)

\* Mutant: the end of the slice is the batch size, not the start plus it.
BatchFixedEnd(uris, i) == SubSeq(uris, i + 1, Min(BATCH_SIZE, Len(uris)))

\* app.js:161  trackURIs.slice(i, i + BATCH_SIZE)
Batch(uris, i) == SubSeq(uris, i + 1, Min(i + BATCH_SIZE, Len(uris)))

---------------------------------------------------------------------------
(* Variable groups *)

labelVars   == <<currentLabel, startsDone>>
sessionVars == <<accessToken, userId>>
searchVars  == <<searchLabel, albums, offset, total, searchHonest, reported>>
collectVars == <<albumIdx, allTracks, collected>>
writeVars   == <<trackURIs, playlistLabel, batchStart, appendSizes>>
remoteVars  == <<playlists, playlist, catalogTotal, tracksPer, firstTrackNumber>>
catalogVars == <<catalogTotal, tracksPer, firstTrackNumber>>

---------------------------------------------------------------------------
(* Init *)

\* The handler-local state before any request, and the remote side.
Idle ==
    /\ currentLabel = ""
    /\ startsDone = 0
    /\ pc = "idle"
    /\ outcome = "none"
    /\ failedAt = "none"
    /\ accessToken = "none"
    /\ userId = "none"
    /\ searchLabel = "none"
    /\ albums = <<>>
    /\ offset = 0
    /\ total = 0
    /\ albumIdx = 0
    /\ allTracks = <<>>
    /\ trackURIs = <<>>
    /\ playlistLabel = "none"
    /\ batchStart = 0
    /\ progress = <<>>
    /\ responses = <<>>
    /\ calls = NoCalls
    /\ appendSizes = <<>>
    /\ playlists = 0
    /\ playlist = <<>>
    /\ collected = <<>>
    /\ searchHonest = TRUE
    /\ reported = <<>>
    /\ pending = NothingPending

\* The catalog sizes the pipeline is run on: the small ones and the two
\* around the page size.
PipelineTotals == (0..MaxSmallTotal) \cup {limit, limit + 1}

Init ==
    /\ Idle
    /\ catalogTotal \in PipelineTotals
    /\ tracksPer \in 0..MaxTracksPerRelease
    /\ firstTrackNumber = 1

---------------------------------------------------------------------------
(* app.post('/start'), app.js:188-202 *)

Start(label) ==
    /\ startsDone < MaxStarts
    /\ currentLabel' = label
    /\ startsDone' = startsDone + 1
    /\ UNCHANGED <<pc, outcome, failedAt, sessionVars, searchVars, collectVars,
                   writeVars, remoteVars, progress, responses, calls, pending>>

---------------------------------------------------------------------------
(* app.get('/callback'), app.js:205-326 *)

\* Mutant: the final event is emitted on the failure path as well, as from a
\* finally block.
FailReportsComplete(api) ==
    /\ failedAt' = api
    /\ responses' = Append(responses, "Error during processing")
    /\ progress' = Append(progress, Event("Processing complete", 100))
    /\ pc' = "done"
    /\ outcome' = "failed"
    /\ pending' = Answered(pending)
    /\ UNCHANGED <<labelVars, sessionVars, searchVars, collectVars, writeVars,
                   remoteVars, calls>>

\* A rejected promise: the helper rethrows, the catch block of the handler
\* (app.js:322-325) logs and answers.  Nothing is emitted on the progress
\* stream.
Fail(api) ==
    /\ failedAt' = api
    /\ responses' = Append(responses, "Error during processing")
    /\ pc' = "done"
    /\ outcome' = "failed"
    /\ pending' = Answered(pending)
    /\ UNCHANGED <<labelVars, sessionVars, searchVars, collectVars, writeVars,
                   remoteVars, progress, calls>>


\* Mutant: the first progress event is emitted before the code is looked at.
CallbackEmitsBeforeGuard(hasCode) ==
    /\ pc = "idle"
    /\ progress' = Append(progress, Event("Received authorization code", 10))
    /\ IF ~hasCode
       THEN /\ responses' = Append(responses, "No authorization code")
            /\ pc' = "done"
            /\ outcome' = "noCode"
            /\ UNCHANGED <<calls, pending>>
       ELSE /\ calls' = Issue("token")
            /\ pending' = Request(pending)
            /\ pc' = "awaitToken"
            /\ UNCHANGED <<responses, outcome>>
    /\ UNCHANGED <<labelVars, failedAt, sessionVars, searchVars, collectVars,
                   writeVars, remoteVars>>

\* Mutant: the guard answers a request without code but does not return;
\* the handler goes on into the try block.
CallbackGuardFallsThrough(hasCode) ==
    /\ pc = "idle"
    /\ responses' = IF hasCode THEN responses
                    ELSE Append(responses, "No authorization code")
    /\ progress' = Append(progress, Event("Received authorization code", 10))
    /\ calls' = Issue("token")
    /\ pending' = Request(pending)
    /\ pc' = "awaitToken"
    /\ UNCHANGED <<labelVars, outcome, failedAt, sessionVars, searchVars,
                   collectVars, writeVars, remoteVars>>

\* app.js:206-216: the request arrives, with or without a code.
Callback(hasCode) ==
    /\ pc = "idle"
    /\ IF ~hasCode
       THEN /\ responses' = Append(responses, "No authorization code")
            /\ pc' = "done"
            /\ outcome' = "noCode"
            /\ UNCHANGED <<progress, calls, pending>>
       ELSE /\ progress' = Append(progress, Event("Received authorization code", 10))
            /\ calls' = Issue("token")
            /\ pending' = Request(pending)
            /\ pc' = "awaitToken"
            /\ UNCHANGED <<responses, outcome>>
    /\ UNCHANGED <<labelVars, failedAt, sessionVars, searchVars, collectVars,
                   writeVars, remoteVars>>

\* app.js:216-220 with getAccessToken 66-77: the token endpoint answers.  A
\* success status without an access_token field yields undefined.
TokenReturns(r) ==
    /\ pc = "awaitToken"
    /\ IF r = "fail"
       THEN Fail("token")
       ELSE /\ accessToken' = IF r = "ok" THEN "token" ELSE "undefined"
            /\ progress' = Append(progress, Event("Access token received", 20))
            /\ calls' = Issue("profile")
            /\ pending' = Request(Answered(pending))
            /\ pc' = "awaitProfile"
            /\ UNCHANGED <<labelVars, outcome, failedAt, userId, searchVars,
                           collectVars, writeVars, remoteVars, responses>>

\* app.js:220-224 with getUserProfile 45-53: the profile endpoint answers;
\* it rejects a request that carries no valid token.  On success the search
\* starts with the label the global holds now.
ProfileReturns(ok) ==
    /\ pc = "awaitProfile"
    /\ accessToken = "undefined" => ~ok
    /\ IF ~ok
       THEN Fail("profile")
       ELSE /\ userId' = "user"
            /\ progress' = Append(progress, Event("Logged in", 30))
            /\ searchLabel' = currentLabel
            /\ albums' = <<>>
            /\ offset' = 0
            /\ total' = 0
            /\ calls' = Issue("search")
            /\ pending' = Request(Answered(pending))
            /\ pc' = "awaitSearch"
            /\ UNCHANGED <<labelVars, outcome, failedAt, accessToken,
                           searchHonest, reported, collectVars, writeVars,
                           remoteVars,
                           responses>>

\* Mutant: the next page starts one position early.
NextOffsetOverlap(o) == o + limit - 1

\* app.js:104  offset += limit
NextOffset(o) == o + limit

\* Mutant: the loop also continues when the offset equals the total.
SearchContinuesInclusive(o, t) == o <= t

\* Mutant: the loop condition counts the releases accumulated so far.
SearchContinuesByCount(o, t) == Len(albums) < t

\* Mutant: the loop condition looks at the offset of the page just fetched
\* and lets it equal the total.
SearchContinuesPreviousOffset(o, t) == o - limit <= t

\* app.js:111  while (offset < total)
SearchContinues(o, t) == o < t

\* The progress events, one per io.emit of the pipeline.
FetchedEvent   == Event("Fetched albums", 40)            \* app.js:105
FoundEvent     == Event("Found albums", 40)              \* app.js:225
\* Mutant: the per-release event reports a percent below the search's.
ProcessedEventLow == Event("Processed album", 35)
ProcessedEvent == Event("Processed album", 45)           \* app.js:236
NoTracksEvent  == Event("No tracks found", 50)           \* app.js:241
TotalEvent     == Event("Total tracks to add", 65)       \* app.js:255
CreatedEvent   == Event("Created playlist", 80)          \* app.js:262
BatchEvent     == Event("Added batch", 90)               \* app.js:169
AllAddedEvent  == Event("All tracks added", 90)          \* app.js:266
CompleteEvent  == Event("Processing complete", 100)      \* app.js:269


\* Mutant: the empty-collection guard returns without emitting and without
\* answering.
AfterCollectionSilentReturn(prog) ==
    IF Len(allTracks) = 0
    THEN /\ progress' = prog
         /\ pc' = "done"
         /\ pending' = Woken(pending)
         /\ UNCHANGED <<allTracks, collected, trackURIs, playlistLabel, calls,
                        responses, outcome>>
    ELSE /\ collected' = allTracks
         /\ allTracks' = SortTracks(allTracks)
         /\ progress' = Append(prog, TotalEvent)
         /\ trackURIs' = MapUris(allTracks')
         /\ playlistLabel' = currentLabel
         /\ calls' = Issue("create")
         /\ pending' = Request(Woken(pending))
         /\ pc' = "awaitCreate"
         /\ UNCHANGED <<responses, outcome>>

\* Mutant: the empty-collection guard is missing; the playlist is created
\* whatever the number of tracks.
AfterCollectionUnguarded(prog) ==
    /\ collected' = allTracks
    /\ allTracks' = SortTracks(allTracks)
    /\ progress' = Append(prog, TotalEvent)
    /\ trackURIs' = MapUris(allTracks')
    /\ playlistLabel' = currentLabel
    /\ calls' = Issue("create")
    /\ pending' = Request(Woken(pending))
    /\ pc' = "awaitCreate"
    /\ UNCHANGED <<responses, outcome>>

\* app.js:240-261: the code after the collection loop, entered with the
\* progress events emitted so far in the same step.  With no track the run
\* ends here; otherwise the tracks are sorted in place, their URIs extracted
\* and the create-playlist request issued with the label the global holds
\* now.
AfterCollection(prog) ==
    IF Len(allTracks) = 0
    THEN /\ progress' = Append(prog, NoTracksEvent)
         /\ responses' = Append(responses, "No tracks found.")
         /\ pc' = "done"
         /\ outcome' = "noTracks"
         /\ pending' = Woken(pending)
         /\ UNCHANGED <<allTracks, collected, trackURIs, playlistLabel, calls>>
    ELSE /\ collected' = allTracks
         /\ allTracks' = SortTracks(allTracks)
         /\ progress' = Append(prog, TotalEvent)
         /\ trackURIs' = MapUris(allTracks')
         /\ playlistLabel' = currentLabel
         /\ calls' = Issue("create")
         /\ pending' = Request(Woken(pending))
         /\ pc' = "awaitCreate"
         /\ UNCHANGED <<responses, outcome>>

\* searchAlbumsByLabel, app.js:91-106: a page arrives.
SearchReturns(resp) ==
    /\ pc = "awaitSearch"
    /\ IF ~resp.ok
       THEN Fail("search")
       ELSE /\ total' = resp.total
            /\ albums' = albums \o resp.items
            /\ offset' = NextOffset(offset)
            /\ progress' = Append(progress, FetchedEvent)
            /\ searchHonest' = (searchHonest /\ resp = HonestPage(offset))
            /\ reported' = Append(reported, resp.total)
            /\ pending' = Sleep(Answered(pending))
            /\ pc' = "sleepSearch"
            /\ UNCHANGED <<labelVars, outcome, failedAt, sessionVars, searchLabel,
                           collectVars, writeVars, remoteVars, responses, calls>>

\* app.js:106-113 and 225-230: the 500 ms sleep ends.  The loop asks for the
\* next page, or the search returns and the collection loop starts.
SearchSleepDone ==
    /\ pc = "sleepSearch"
    /\ IF SearchContinues(offset, total)
       THEN /\ calls' = Issue("search")
            /\ pending' = Request(Woken(pending))
            /\ pc' = "awaitSearch"
            /\ UNCHANGED <<progress, responses, outcome, collectVars, trackURIs,
                           playlistLabel>>
       ELSE IF Len(albums) > 0
            THEN /\ progress' = Append(progress, FoundEvent)
                 /\ albumIdx' = 1
                 /\ calls' = Issue("tracks")
                 /\ pending' = Request(Woken(pending))
                 /\ pc' = "awaitTracks"
                 /\ UNCHANGED <<responses, outcome, allTracks, collected,
                                trackURIs, playlistLabel>>
            ELSE /\ UNCHANGED albumIdx
                 /\ AfterCollection(Append(progress, FoundEvent))
    /\ UNCHANGED <<labelVars, failedAt, sessionVars, searchVars, batchStart,
                   appendSizes, remoteVars>>

\* Mutant: the failure of a tracks request is swallowed, the release counts
\* as having no tracks and the loop goes on.
TracksRejectedSwallowed ==
    /\ failedAt' = "tracks"
    /\ progress' = Append(progress, ProcessedEvent)
    /\ pending' = Sleep(Answered(pending))
    /\ pc' = "sleepTracks"
    /\ UNCHANGED <<labelVars, outcome, sessionVars, searchVars, collectVars,
                   writeVars, remoteVars, responses, calls>>

\* Mutant: after a failed tracks request the handler starts the search over.
TracksRejectedRestartSearch ==
    /\ albums' = <<>>
    /\ offset' = 0
    /\ total' = 0
    /\ calls' = Issue("search")
    /\ pending' = Request(Answered(pending))
    /\ pc' = "awaitSearch"
    /\ UNCHANGED <<labelVars, outcome, failedAt, sessionVars, searchLabel,
                   searchHonest, reported, collectVars, writeVars, remoteVars,
                   progress,
                   responses>>

\* getAlbumTracks, app.js:125-128: the request failed and the error is
\* rethrown.
TracksRejected == Fail("tracks")

\* app.js:230-237 with getAlbumTracks 119-124: the tracks of the current
\* release arrive, are stamped and appended.
TracksReturns(ok) ==
    /\ pc = "awaitTracks"
    /\ IF ~ok
       THEN TracksRejected
       ELSE /\ allTracks' = allTracks \o
                    Annotate(albums[albumIdx], AlbumTracksItems(albums[albumIdx].id))
            /\ progress' = Append(progress, ProcessedEvent)
            /\ pending' = Sleep(Answered(pending))
            /\ pc' = "sleepTracks"
            /\ UNCHANGED <<labelVars, outcome, failedAt, sessionVars, searchVars,
                           albumIdx, collected, writeVars, remoteVars, responses,
                           calls>>

\* app.js:237-238, 229: the 200 ms sleep ends; next release, or the loop is
\* over.
TracksSleepDone ==
    /\ pc = "sleepTracks"
    /\ IF albumIdx < Len(albums)
       THEN /\ albumIdx' = albumIdx + 1
            /\ calls' = Issue("tracks")
            /\ pending' = Request(Woken(pending))
            /\ pc' = "awaitTracks"
            /\ UNCHANGED <<progress, responses, outcome, allTracks, collected,
                           trackURIs, playlistLabel>>
       ELSE /\ UNCHANGED albumIdx
            /\ AfterCollection(progress)
    /\ UNCHANGED <<labelVars, failedAt, sessionVars, searchVars, batchStart,
                   appendSizes, remoteVars>>

\* app.js:266-321: every batch is on the playlist; the last two events and
\* the completion page.
Finish(prog) ==
    /\ progress' = Append(Append(prog, AllAddedEvent), CompleteEvent)
    /\ responses' = Append(responses, "Processing Complete")
    /\ pc' = "done"
    /\ outcome' = "complete"

\* Mutant: the loop steps by one less than the batch size.
NextBatchStartOverlap(i) == i + BATCH_SIZE - 1

\* app.js:160  i += BATCH_SIZE
NextBatchStart(i) == i + BATCH_SIZE

\* addTracksToPlaylist, app.js:160-163: the loop test at index i; the request
\* for the batch that starts there is issued, or the loop is over.  settled
\* is what is pending once the promise that resumed the handler is taken off.
BeginAppend(prog, i, settled) ==
    /\ batchStart' = i
    /\ IF i < Len(trackURIs)
       THEN /\ calls' = Issue("append")
            /\ pending' = Request(settled)
            /\ appendSizes' = Append(appendSizes, Len(Batch(trackURIs, i)))
            /\ progress' = prog
            /\ pc' = "awaitAppend"
            /\ UNCHANGED <<responses, outcome>>
       ELSE /\ Finish(prog)
            /\ pending' = settled
            /\ UNCHANGED <<calls, appendSizes>>

\* Mutant: a failed create-playlist request is issued again.
CreateRejectedRetry ==
    /\ calls' = Issue("create")
    /\ UNCHANGED <<labelVars, pc, outcome, failedAt, sessionVars, searchVars,
                   collectVars, writeVars, remoteVars, progress, responses,
                   pending>>

\* createPlaylist, app.js:149-152: the request failed and the error is
\* rethrown.
CreateRejected == Fail("create")

\* app.js:261-265 with createPlaylist 142-148: the playlist exists remotely;
\* the append loop starts.
CreateReturns(ok) ==
    /\ pc = "awaitCreate"
    /\ IF ~ok
       THEN CreateRejected
       ELSE /\ playlists' = playlists + 1
            /\ BeginAppend(Append(progress, CreatedEvent), 0, Answered(pending))
            /\ UNCHANGED <<labelVars, failedAt, sessionVars, searchVars,
                           collectVars, trackURIs, playlistLabel, playlist,
                           catalogVars>>

\* Variant of AppendReturns in which the 300 ms sleep is started but not
\* awaited: the loop goes on to the next batch while the timer still runs.
AppendReturnsSleepNotAwaited(ok) ==
    /\ pc = "awaitAppend"
    /\ IF ~ok
       THEN Fail("append")
       ELSE /\ playlist' = playlist \o Batch(trackURIs, batchStart)
            /\ BeginAppend(Append(progress, BatchEvent),
                           NextBatchStart(batchStart), Sleep(Answered(pending)))
            /\ UNCHANGED <<labelVars, failedAt, sessionVars, searchVars,
                           collectVars, trackURIs, playlistLabel, playlists,
                           catalogVars>>

\* addTracksToPlaylist, app.js:163-174: the append request is answered.  A
\* successful request has put its URIs at the end of the playlist, a failed
\* one has put nothing.
AppendReturns(ok) ==
    /\ pc = "awaitAppend"
    /\ IF ~ok
       THEN Fail("append")
       ELSE /\ playlist' = playlist \o Batch(trackURIs, batchStart)
            /\ progress' = Append(progress, BatchEvent)
            /\ pending' = Sleep(Answered(pending))
            /\ pc' = "sleepAppend"
            /\ UNCHANGED <<labelVars, outcome, failedAt, sessionVars, searchVars,
                           collectVars, writeVars, playlists, catalogVars,
                           responses, calls>>

\* app.js:170, 160: the 300 ms sleep ends; next batch, or the loop is over.
AppendSleepDone ==
    /\ pc = "sleepAppend"
    /\ BeginAppend(progress, NextBatchStart(batchStart), Woken(pending))
    /\ UNCHANGED <<labelVars, failedAt, sessionVars, searchVars, collectVars,
                   trackURIs, playlistLabel, remoteVars>>

---------------------------------------------------------------------------
(* The pipeline: one /callback request, /start requests at any time *)

Next ==
    \/ \E label \in Labels : Start(label)
    \/ \E hasCode \in BOOLEAN : Callback(hasCode)
    \/ \E r \in {"ok", "noToken", "fail"} : TokenReturns(r)
    \/ \E ok \in BOOLEAN : ProfileReturns(ok)
    \/ \E resp \in SearchResponses(offset) : SearchReturns(resp)
    \/ SearchSleepDone
    \/ \E ok \in BOOLEAN : TracksReturns(ok)
    \/ TracksSleepDone
    \/ \E ok \in BOOLEAN : CreateReturns(ok)
    \/ \E ok \in BOOLEAN : AppendReturns(ok)
    \/ AppendSleepDone

Spec == Init /\ [][Next]_vars

\* The steps that resume a handler that is waiting: the promise it awaits
\* settles, a request by its answer, a sleep by its timer.
Resume ==
    \/ \E r \in {"ok", "noToken", "fail"} : TokenReturns(r)
    \/ \E ok \in BOOLEAN : ProfileReturns(ok)
    \/ \E resp \in SearchResponses(offset) : SearchReturns(resp)
    \/ SearchSleepDone
    \/ \E ok \in BOOLEAN : TracksReturns(ok)
    \/ TracksSleepDone
    \/ \E ok \in BOOLEAN : CreateReturns(ok)
    \/ \E ok \in BOOLEAN : AppendReturns(ok)
    \/ AppendSleepDone

\* The state in which the /start requests have been made and the browser is
\* about to come back with /callback: the global holds the label posted
\* last.
InitLive ==
    /\ currentLabel \in Labels
    /\ startsDone = MaxStarts
    /\ pc = "idle"
    /\ outcome = "none"
    /\ failedAt = "none"
    /\ accessToken = "none"
    /\ userId = "none"
    /\ searchLabel = "none"
    /\ albums = <<>>
    /\ offset = 0
    /\ total = 0
    /\ albumIdx = 0
    /\ allTracks = <<>>
    /\ trackURIs = <<>>
    /\ playlistLabel = "none"
    /\ batchStart = 0
    /\ progress = <<>>
    /\ responses = <<>>
    /\ calls = NoCalls
    /\ appendSizes = <<>>
    /\ playlists = 0
    /\ playlist = <<>>
    /\ collected = <<>>
    /\ searchHonest = TRUE
    /\ reported = <<>>
    /\ catalogTotal \in PipelineTotals
    /\ tracksPer \in 0..MaxTracksPerRelease
    /\ firstTrackNumber = 1
    /\ pending = NothingPending

NextLive ==
    \/ \E hasCode \in BOOLEAN : Callback(hasCode)
    \/ Resume

\* One /callback request on a platform that answers every request, with
\* success or failure and with the catalog's total on every search page, and
\* with timers that fire: a handler that waits is resumed in the end.
SpecLive == InitLive /\ [][NextLive]_vars /\ WF_vars(Resume)

---------------------------------------------------------------------------
(* searchAlbumsByLabel on its own: a call with every catalog size up to      *)
(* MaxSearchTotal, the first page request in flight.  Of the bookkeeping of   *)
(* the earlier stages only the request in flight is carried.                 *)

InitSearch ==
    /\ currentLabel = "A"
    /\ startsDone = 1
    /\ pc = "awaitSearch"
    /\ outcome = "none"
    /\ failedAt = "none"
    /\ accessToken = "token"
    /\ userId = "user"
    /\ searchLabel = "A"
    /\ albums = <<>>
    /\ offset = 0
    /\ total = 0
    /\ albumIdx = 0
    /\ allTracks = <<>>
    /\ trackURIs = <<>>
    /\ playlistLabel = "none"
    /\ batchStart = 0
    /\ progress = <<>>
    /\ responses = <<>>
    /\ calls = [NoCalls EXCEPT !["search"] = 1]
    /\ appendSizes = <<>>
    /\ playlists = 0
    /\ playlist = <<>>
    /\ collected = <<>>
    /\ searchHonest = TRUE
    /\ reported = <<>>
    /\ catalogTotal \in 0..MaxSearchTotal
    /\ tracksPer = 1
    /\ firstTrackNumber = 1
    /\ pending = Request(NothingPending)

NextSearch ==
    \/ \E resp \in SearchResponses(offset) : SearchReturns(resp)
    \/ /\ calls["search"] < MaxSearchCalls
       /\ SearchReturns(GrowingPage(offset))
    \/ SearchSleepDone

SpecSearch == InitSearch /\ [][NextSearch]_vars

---------------------------------------------------------------------------
(* The sort on its own: the collection loop has fetched its last release    *)
(* and the sleep that follows is running.                                   *)

SortDates == { <<2019, 6, 15>>, <<2020>>, <<2020, 1, 1>> }

\* What the platform returned for one release: its date and the track
\* numbers of its items.  Either the tracks 1..n of a release, or a single
\* item with any track number.
NumberedReleases ==
    { [date |-> d, numbers |-> [p \in 1..n |-> p]] :
        d \in SortDates, n \in 0..MaxSortTracks }

SingleTrackReleases ==
    { [date |-> d, numbers |-> <<t>>] : d \in SortDates, t \in 1..MaxTrackNumber }

SortInputs ==
    UNION { [1..r -> NumberedReleases] : r \in 1..MaxSortReleases }
    \cup UNION { [1..r -> SingleTrackReleases] : r \in 1..MaxSortLen }

\* The collection the loop of app.js:229-238 builds from these releases.
RECURSIVE CollectFrom(_, _)
CollectFrom(rs, n) ==
    IF n = 0 THEN <<>>
    ELSE CollectFrom(rs, n - 1) \o
         Annotate([id |-> n, release_date |-> rs[n].date],
                  [p \in 1..Len(rs[n].numbers) |->
                      [uri |-> <<n, p>>, track_number |-> rs[n].numbers[p]]])

InitSort ==
    /\ currentLabel = "A"
    /\ startsDone = 1
    /\ pc = "sleepTracks"
    /\ outcome = "none"
    /\ failedAt = "none"
    /\ accessToken = "token"
    /\ userId = "user"
    /\ searchLabel = "A"
    /\ \E rs \in SortInputs :
          /\ albums = [i \in 1..Len(rs) |-> [id |-> i, release_date |-> rs[i].date]]
          /\ allTracks = CollectFrom(rs, Len(rs))
          /\ catalogTotal = Len(rs)
    /\ offset = limit
    /\ total = catalogTotal
    /\ albumIdx = Len(albums)
    /\ trackURIs = <<>>
    /\ playlistLabel = "none"
    /\ batchStart = 0
    /\ progress = <<>>
    /\ responses = <<>>
    /\ calls = NoCalls
    /\ appendSizes = <<>>
    /\ playlists = 0
    /\ playlist = <<>>
    /\ collected = <<>>
    /\ searchHonest = TRUE
    /\ reported = <<>>
    /\ tracksPer = 0
    /\ firstTrackNumber = 1
    /\ pending = Sleep(NothingPending)

SpecSort == InitSort /\ [][TracksSleepDone]_vars

---------------------------------------------------------------------------
(* The playlist writer on its own: the create-playlist request is in flight *)
(* and any number of URIs up to MaxBatchTracks is to be appended.           *)

InitBatch ==
    /\ currentLabel = "A"
    /\ startsDone = 1
    /\ pc = "awaitCreate"
    /\ outcome = "none"
    /\ failedAt = "none"
    /\ accessToken = "token"
    /\ userId = "user"
    /\ searchLabel = "A"
    /\ albums = <<>>
    /\ offset = 0
    /\ total = 0
    /\ albumIdx = 0
    /\ allTracks = <<>>
    /\ \E n \in 0..MaxBatchTracks : trackURIs = [i \in 1..n |-> <<1, i>>]
    /\ playlistLabel = "A"
    /\ batchStart = 0
    /\ progress = <<>>
    /\ responses = <<>>
    /\ calls = [NoCalls EXCEPT !["create"] = 1]
    /\ appendSizes = <<>>
    /\ playlists = 0
    /\ playlist = <<>>
    /\ collected = <<>>
    /\ searchHonest = TRUE
    /\ reported = <<>>
    /\ catalogTotal = 0
    /\ tracksPer = 0
    /\ firstTrackNumber = 1
    /\ pending = Request(NothingPending)

NextBatch ==
    \/ \E ok \in BOOLEAN : CreateReturns(ok)
    \/ \E ok \in BOOLEAN : AppendReturns(ok)
    \/ AppendSleepDone

SpecBatch == InitBatch /\ [][NextBatch]_vars

---------------------------------------------------------------------------
(* The collection loop on its own: the state in which searchAlbumsByLabel  *)
(* has returned the releases of a catalog of 1 .. MaxCollectReleases and   *)
(* the first tracks request is in flight.  The platform numbers the tracks *)
(* of a release from 1, or from 0.                                         *)

InitCollect ==
    /\ currentLabel = "A"
    /\ startsDone = 1
    /\ pc = "awaitTracks"
    /\ outcome = "none"
    /\ failedAt = "none"
    /\ accessToken = "token"
    /\ userId = "user"
    /\ searchLabel = "A"
    /\ \E t \in 1..MaxCollectReleases :
          /\ catalogTotal = t
          /\ albums = [k \in 1..t |-> Release(k)]
          /\ reported = <<t>>
    /\ offset = limit
    /\ total = catalogTotal
    /\ albumIdx = 1
    /\ allTracks = <<>>
    /\ trackURIs = <<>>
    /\ playlistLabel = "none"
    /\ batchStart = 0
    /\ progress = <<>>
    /\ responses = <<>>
    /\ calls = [NoCalls EXCEPT !["search"] = 1, !["tracks"] = 1]
    /\ appendSizes = <<>>
    /\ playlists = 0
    /\ playlist = <<>>
    /\ collected = <<>>
    /\ searchHonest = TRUE
    /\ tracksPer \in 0..MaxTracksPerRelease
    /\ firstTrackNumber \in {0, 1}
    /\ pending = Request(NothingPending)

NextCollect ==
    \/ \E ok \in BOOLEAN : TracksReturns(ok)
    \/ TracksSleepDone

SpecCollect == InitCollect /\ [][NextCollect]_vars

---------------------------------------------------------------------------
(* Properties *)

\* searchAlbumsByLabel has returned its list to the handler.
SearchReturned ==
    /\ pc \notin {"idle", "awaitToken", "awaitProfile", "awaitSearch", "sleepSearch"}
    /\ failedAt \notin {"token", "profile", "search"}
    /\ outcome # "noCode"

\* C1: when every page was the honest one (constant total T, the releases at
\* positions o .. min(o+50, T)-1 for offset o), the list searchAlbumsByLabel
\* returns holds exactly the T releases of the catalog, each once.
C1_SearchReturnsExactlyTotal ==
    (SearchReturned /\ searchHonest) =>
        /\ Len(albums) = catalogTotal
        /\ \A i \in 1..Len(albums) : albums[i] = Release(i)
        /\ \A i, j \in 1..Len(albums) : i # j => albums[i].id # albums[j].id

C1_Witness ==
    /\ SearchReturned
    /\ searchHonest
    /\ catalogTotal = 2 * limit
    /\ calls["search"] = 2
    /\ Len(albums) = 2 * limit

\* allTracks.sort has been called (it is called on a non-empty list only).
SortDone == Len(collected) > 0

\* C2: in the sorted list every adjacent pair (x, y) has date(x) < date(y),
\* or date(x) = date(y) and trackNumber(x) <= trackNumber(y).
C2_SortedAdjacentPairs ==
    SortDone =>
        \A k \in 1..(Len(allTracks) - 1) :
            LET x == allTracks[k]
                y == allTracks[k + 1]
            IN  \/ GetTime(x.albumReleaseDate) < GetTime(y.albumReleaseDate)
                \/ /\ GetTime(x.albumReleaseDate) = GetTime(y.albumReleaseDate)
                   /\ x.albumTrackNumber <= y.albumTrackNumber

\* A sorted list in which both keys take part: two dates, and two track
\* numbers under one date, met in the other order.
C2_Witness ==
    /\ SortDone
    /\ Len(allTracks) >= 3
    /\ allTracks # collected
    /\ \E i, j \in 1..Len(collected) :
          /\ i < j
          /\ GetTime(collected[i].albumReleaseDate) = GetTime(collected[j].albumReleaseDate)
          /\ collected[i].albumTrackNumber > collected[j].albumTrackNumber
    /\ \E i, j \in 1..Len(collected) :
          /\ i < j
          /\ GetTime(collected[i].albumReleaseDate) > GetTime(collected[j].albumReleaseDate)

\* The collection of C3: release 1 with tracks 1, 2, 3 and release 2 with
\* tracks 1, 2, the two releases of one date, collected in that order.
C3_Input ==
    /\ SortDone
    /\ Len(albums) = 2
    /\ GetTime(albums[1].release_date) = GetTime(albums[2].release_date)
    /\ MapUris(collected) = << <<1, 1>>, <<1, 2>>, <<1, 3>>, <<2, 1>>, <<2, 2>> >>
    /\ [k \in 1..5 |-> collected[k].albumTrackNumber] = <<1, 2, 3, 1, 2>>

\* C3 as stated: sorting that collection yields
\* [R1t1, R1t2, R1t3, R2t1, R2t2].
C3_Original ==
    C3_Input =>
        MapUris(allTracks) = << <<1, 1>>, <<1, 2>>, <<1, 3>>, <<2, 1>>, <<2, 2>> >>

\* C3, amended: sorting that collection yields
\* [R1t1, R2t1, R1t2, R2t2, R1t3]: the tracks of the two releases are merged
\* by track number, release 1 first among equal numbers.
C3_SameDateReleasesInterleave ==
    C3_Input =>
        MapUris(allTracks) = << <<1, 1>>, <<2, 1>>, <<1, 2>>, <<2, 2>>, <<1, 3>> >>

C3_Witness ==
    /\ C3_Input
    /\ albums[1].release_date = albums[2].release_date
    /\ Len(allTracks) = 5

\* The position of the track with a given URI.
PosOf(tracks, uri) == CHOOSE k \in 1..Len(tracks) : tracks[k].uri = uri

SameKey(a, b) ==
    /\ GetTime(a.albumReleaseDate) = GetTime(b.albumReleaseDate)
    /\ a.albumTrackNumber = b.albumTrackNumber

\* C4: two tracks with the same release date and the same track number come
\* out of the sort in the order in which they were collected.
C4_SortIsStable ==
    SortDone =>
        \A i, j \in 1..Len(collected) :
            (i < j /\ SameKey(collected[i], collected[j])) =>
                PosOf(allTracks, collected[i].uri) < PosOf(allTracks, collected[j].uri)

\* Three tracks of one key, and the sort moved something.
C4_Witness ==
    /\ SortDone
    /\ allTracks # collected
    /\ \E i, j, k \in 1..Len(collected) :
          /\ i < j
          /\ j < k
          /\ SameKey(collected[i], collected[j])
          /\ SameKey(collected[j], collected[k])

CeilDiv(n, d) == (n + d - 1) \div d

\* C5: once addTracksToPlaylist has returned, the N URIs went out in exactly
\* ceil(N/100) append requests, each but the last of 100 URIs and the last of
\* N - 100*(ceil(N/100)-1); for N = 250 the sizes are 100, 100, 50 in that
\* order.
C5_BatchSizes ==
    outcome = "complete" =>
        LET n == Len(trackURIs)
            b == CeilDiv(n, BATCH_SIZE)
        IN  /\ Len(appendSizes) = b
            /\ calls["append"] = b
            /\ \A k \in 1..(b - 1) : appendSizes[k] = BATCH_SIZE
            /\ b > 0 => appendSizes[b] = n - BATCH_SIZE * (b - 1)
            /\ n = 250 => appendSizes = <<100, 100, 50>>

C5_Witness ==
    /\ outcome = "complete"
    /\ Len(trackURIs) = 250
    /\ appendSizes = <<100, 100, 50>>

\* C6: once an API call of the run has failed, the run issues no further API
\* call; and when a search page or a tracks request failed, no create-playlist
\* or append request was ever issued and nothing was created remotely.
C6_NoCallAfterFailure ==
    /\ [](failedAt \in {"search", "tracks"} =>
            /\ calls["create"] = 0
            /\ calls["append"] = 0
            /\ playlists = 0
            /\ playlist = <<>>)
    /\ [][failedAt # "none" => calls' = calls]_vars

\* The second search page failed; a tracks request failed after others had
\* succeeded.
C6_Witness ==
    \/ failedAt = "search" /\ calls["search"] = 2
    \/ failedAt = "tracks" /\ calls["tracks"] >= 2

FailedEvents == {k \in 1..Len(progress) : progress[k].msg = "Failed"}

\* C7: a run in which an API call failed has emitted exactly one Failed
\* progress event, and that event is the last progress event of the run.
C7_OneFailedEvent ==
    outcome = "failed" =>
        /\ Cardinality(FailedEvents) = 1
        /\ progress[Len(progress)].msg = "Failed"

\* C8: when append batch k has failed, the playlist holds exactly the first
\* 100*(k-1) URIs of the sorted sequence, in order; from then on no further
\* request is issued and the playlist does not change.
C8_PrefixOnBatchFailure ==
    /\ [](failedAt = "append" =>
            /\ Len(trackURIs) >= BATCH_SIZE * (calls["append"] - 1)
            /\ playlist = SubSeq(trackURIs, 1, BATCH_SIZE * (calls["append"] - 1)))
    /\ [][failedAt = "append" => (playlist' = playlist /\ calls' = calls)]_vars

\* The third batch failed after two had been appended.
C8_Witness ==
    /\ failedAt = "append"
    /\ calls["append"] = 3
    /\ Len(playlist) = 2 * BATCH_SIZE

\* C9: the percents of the progress events emitted so far never decrease.
C9_PercentNonDecreasing ==
    \A k \in 1..(Len(progress) - 1) : progress[k].percent <= progress[k + 1].percent

\* A complete run with two search pages, and its events from 10 to 100.
C9_Witness ==
    /\ outcome = "complete"
    /\ calls["search"] = 2
    /\ calls["tracks"] > limit
    /\ progress[1].percent = 10
    /\ progress[Len(progress)].percent = 100

\* C10 as stated: the create-playlist call is never issued twice, and a run
\* that has ended without an error has issued it once.
C10_Original ==
    /\ calls["create"] <= 1
    /\ (pc = "done" /\ outcome \in {"complete", "noTracks"}) => calls["create"] = 1

\* C10, amended: the create-playlist call is never issued twice and at most
\* one playlist is created; a run that has ended complete has issued the call
\* once and created one playlist; a run that has ended with no tracks found
\* has issued no create-playlist call.
C10_CreateAtMostOnce ==
    /\ calls["create"] <= 1
    /\ playlists <= calls["create"]
    /\ outcome = "complete" => (calls["create"] = 1 /\ playlists = 1)
    /\ outcome = "noTracks" => (calls["create"] = 0 /\ playlists = 0)

C10_Witness ==
    /\ outcome = "complete"
    /\ calls["create"] = 1
    /\ playlists = 1
    /\ Len(playlist) > 0

\* The stage of the run the handler is in, numbered along
\* TokenExchange, ProfileLookup, Searching, Collecting, (Sorting,)
\* PlaylistCreate, AppendingTracks, and the end of the run.  Sorting has no
\* await: it runs inside the step that leaves Collecting.
StageOf(p) ==
    CASE p = "idle" -> 0
      [] p = "awaitToken" -> 1
      [] p = "awaitProfile" -> 2
      [] p \in {"awaitSearch", "sleepSearch"} -> 3
      [] p \in {"awaitTracks", "sleepTracks"} -> 4
      [] p = "awaitCreate" -> 6
      [] p \in {"awaitAppend", "sleepAppend"} -> 7
      [] p = "done" -> 8

\* C11: the stages occur only in the order TokenExchange, ProfileLookup,
\* Searching, Collecting, Sorting, PlaylistCreate, AppendingTracks, Complete:
\* the handler never moves to an earlier stage, it is in a stage only when the
\* stage before has succeeded, and the token, profile and create-playlist
\* calls are each issued at most once.
C11_StagesInOrder ==
    /\ [][StageOf(pc') >= StageOf(pc)]_vars
    /\ [](/\ calls["token"] <= 1
          /\ calls["profile"] <= 1
          /\ calls["create"] <= 1
          /\ StageOf(pc) \in 2..7 => (calls["token"] = 1 /\ accessToken # "none")
          /\ StageOf(pc) \in 3..7 => (calls["profile"] = 1 /\ userId = "user")
          /\ StageOf(pc) \in 4..7 =>
                (calls["search"] >= 1 /\ ~SearchContinues(offset, total))
          /\ StageOf(pc) \in 6..7 =>
                (calls["tracks"] = Len(albums) /\ SortDone
                 /\ trackURIs = MapUris(allTracks))
          /\ StageOf(pc) = 7 => (calls["create"] = 1 /\ playlists = 1)
          /\ outcome = "complete" =>
                (calls["create"] = 1 /\ playlists = 1 /\ playlist = trackURIs))

\* A run that went through every stage, with more than one search page.
C11_Witness ==
    /\ outcome = "complete"
    /\ calls["search"] = 2
    /\ calls["tracks"] = Len(albums)
    /\ calls["append"] >= 1
    /\ Len(progress) > limit

\* The positions at which the handler waits for a request, and for a timer.
AwaitingRequest == pc \in {"awaitToken", "awaitProfile", "awaitSearch",
                           "awaitTracks", "awaitCreate", "awaitAppend"}
AwaitingTimer == pc \in {"sleepSearch", "sleepTracks", "sleepAppend"}

\* C12: the run is one sequential chain: at every moment at most one promise
\* is pending, a request in flight or a sleep timer, never both and never two;
\* it is the one the handler is waiting for, so each call and each delay has
\* completed before the next step starts, and nothing is pending once the
\* handler has returned.
C12_OneCallInFlight ==
    /\ pending.requests + pending.timers <= 1
    /\ pending.requests = (IF AwaitingRequest THEN 1 ELSE 0)
    /\ pending.timers = (IF AwaitingTimer THEN 1 ELSE 0)

C12_Witness ==
    /\ pc = "sleepAppend"
    /\ pending = Sleep(NothingPending)
    /\ calls["search"] = 2
    /\ calls["tracks"] > 1

\* C13: when the token endpoint answers 200 without an access_token field,
\* the exchange fails: the run never holds an undefined token and the profile
\* lookup is not issued.
C13_MissingTokenAborts ==
    accessToken = "undefined" => (outcome = "failed" /\ failedAt = "token" /\ calls["profile"] = 0)

\* C14: a run whose label is missing or empty issues no search request: every
\* search that was issued carries a non-empty label, and so does every
\* playlist that was created.
C14_EmptyLabelRejected ==
    /\ calls["search"] > 0 => searchLabel # ""
    /\ calls["create"] > 0 => playlistLabel # ""

\* The calendar position of a release date as year, month, day read as one
\* number; a missing month or day counts as the first.
CalendarKey(rd) ==
    rd[1] * 10000 + (IF Len(rd) >= 2 THEN rd[2] ELSE 1) * 100
                  + (IF Len(rd) >= 3 THEN rd[3] ELSE 1)

\* The URIs of all tracks of the discovered releases.
DiscoveredUris ==
    UNION {{<<albums[k].id, p>> : p \in 1..TrackCount(albums[k].id)} : k \in 1..Len(albums)}

\* URI u may stand before URI v: earlier release date, or the same date and
\* a track number that is not higher.
MayPrecede(u, v) ==
    LET du == CalendarKey(Release(u[1]).release_date)
        dv == CalendarKey(Release(v[1]).release_date)
    IN  du < dv \/ (du = dv /\ u[2] <= v[2])

C16_ZeroReleases ==
    (SearchReturned /\ catalogTotal = 0 /\ Len(reported) > 0 /\ reported[1] = 0) =>
        /\ albums = <<>>
        /\ calls["search"] = 1
        /\ failedAt = "none"
        /\ outcome # "failed"

C16_Witness ==
    /\ SearchReturned
    /\ catalogTotal = 0
    /\ total = 0
    /\ albums = <<>>
    /\ offset = limit
    /\ calls["search"] = 1
    /\ outcome = "noTracks"

\* C17 as stated: the paginator stops only when the number of accumulated
\* releases has reached the reported total, also after pages of fewer than 50
\* items.
C17_Original ==
    SearchReturned => Len(albums) >= total

\* C17: the paginator goes by the offset, not by the accumulated count.  The
\* offset is 50 times the number of pages fetched; a further page is requested
\* only while that offset is below the total last reported, and the search
\* returns once the offset has reached the total, whatever the number of
\* releases accumulated.
C17_StopsOnOffset ==
    /\ pc = "awaitSearch" =>
          /\ offset = limit * (calls["search"] - 1)
          /\ calls["search"] > 1 => offset < total
    /\ pc = "sleepSearch" => offset = limit * calls["search"]
    /\ SearchReturned =>
          /\ offset = limit * calls["search"]
          /\ offset >= total
          /\ Len(albums) <= total

C17_Witness ==
    /\ SearchReturned
    /\ ~searchHonest
    /\ catalogTotal = 2 * limit + 1
    /\ calls["search"] = 3
    /\ offset = 3 * limit
    /\ Len(albums) < total

\* C18: the URIs of the append requests, put together in request order, are
\* the sorted URI sequence: while request k is awaited the playlist holds the
\* first 100 * (k - 1) URIs, after it has returned it holds them and the
\* batch, and at completion it is the whole sequence, nothing dropped,
\* duplicated or reordered.  A request is issued only when none is in flight
\* and every earlier one has returned successfully.
C18_AppendsInOrder ==
    /\ [](/\ pc = "awaitAppend" =>
               /\ batchStart = BATCH_SIZE * (calls["append"] - 1)
               /\ batchStart < Len(trackURIs)
               /\ playlist = SubSeq(trackURIs, 1, batchStart)
          /\ pc = "sleepAppend" =>
               playlist = SubSeq(trackURIs, 1, Min(batchStart + BATCH_SIZE, Len(trackURIs)))
          /\ outcome = "complete" => playlist = trackURIs)
    /\ [][calls'["append"] # calls["append"] =>
              /\ calls'["append"] = calls["append"] + 1
              /\ pc \in {"awaitCreate", "sleepAppend"}
              /\ pending.requests = (IF pc = "awaitCreate" THEN 1 ELSE 0)
              /\ failedAt = "none"
              /\ Len(playlist) = BATCH_SIZE * calls["append"]]_vars

C18_Witness ==
    /\ pc = "sleepAppend"
    /\ calls["append"] = 2
    /\ Len(trackURIs) = BATCH_SIZE + limit
    /\ playlist = trackURIs

\* Every page answered so far reported the same total.
ConstantTotal == \A k \in 1..Len(reported) : reported[k] = reported[1]

\* C19: with every page answered and the same total T on every page the
\* search ends after exactly max(1, ceil(T / 50)) page requests; request k
\* is made at offset 50 * (k - 1), so the offsets 0, 50, 100, ... are asked
\* once each.  The loop itself has no bound: whenever the total last reported
\* exceeds the offset another request follows, however many were made.
C19_PageRequests ==
    /\ [](/\ pc = "awaitSearch" =>
               /\ offset = limit * (calls["search"] - 1)
               /\ Len(reported) = calls["search"] - 1
          /\ (SearchReturned /\ ConstantTotal) =>
               /\ Len(reported) = calls["search"]
               /\ calls["search"] = (IF reported[1] = 0 THEN 1
                                     ELSE CeilDiv(reported[1], limit)))
    /\ [][calls'["search"] # calls["search"] =>
              /\ calls'["search"] = calls["search"] + 1
              /\ pc = "sleepSearch"
              /\ offset' = limit * calls["search"]
              /\ offset < total]_vars
    /\ [][(pc = "sleepSearch" /\ offset < total) =>
              (pc' = "awaitSearch" /\ calls'["search"] = calls["search"] + 1)]_vars

C19_Witness ==
    /\ SearchReturned
    /\ ConstantTotal
    /\ reported = <<2 * limit + 1, 2 * limit + 1, 2 * limit + 1>>
    /\ calls["search"] = 3
    /\ offset = 3 * limit

\* The platform reported a larger total on every page and the search went on
\* past what the catalog needs.
C19_GrowingTotalReached ==
    /\ pc = "awaitSearch"
    /\ catalogTotal = 0
    /\ calls["search"] = MaxSearchCalls
    /\ ~ConstantTotal

\* The tracks of one release as the collector should hold them: each with
\* the release date of that release and with its own track number.
TracksOfRelease(album) ==
    [p \in 1..TrackCount(album.id) |->
        [uri |-> <<album.id, p>>,
         albumReleaseDate |-> album.release_date,
         albumTrackNumber |-> p]]

\* The track lists of the discovered releases lo..hi, one after the other.
RECURSIVE TracksOfRange(_, _)
TracksOfRange(lo, hi) ==
    IF lo > hi THEN <<>>
    ELSE IF lo = hi THEN TracksOfRelease(albums[lo])
    ELSE LET mid == (lo + hi) \div 2
         IN  TracksOfRange(lo, mid) \o TracksOfRange(mid + 1, hi)

\* C20: request k of the collector is the one for the k-th discovered
\* release, one request per release; every collected track carries the date
\* of its release and its own track number, and the collection (before it is
\* sorted) is the per-release lists put together in discovery order.
C20_CollectionInDiscoveryOrder ==
    /\ pc = "awaitTracks" =>
          /\ albumIdx \in 1..Len(albums)
          /\ calls["tracks"] = albumIdx
          /\ allTracks = TracksOfRange(1, albumIdx - 1)
    /\ pc = "sleepTracks" =>
          /\ calls["tracks"] = albumIdx
          /\ allTracks = TracksOfRange(1, albumIdx)
    /\ outcome = "noTracks" =>
          /\ calls["tracks"] = Len(albums)
          /\ allTracks = TracksOfRange(1, Len(albums))
    /\ SortDone =>
          /\ calls["tracks"] = Len(albums)
          /\ collected = TracksOfRange(1, Len(albums))

C20_Witness ==
    /\ SortDone
    /\ tracksPer = 2
    /\ Len(albums) = limit + 1
    /\ calls["tracks"] = limit + 1
    /\ Len(collected) = 3 * (limit \div 2) + 2
    /\ collected # allTracks

\* A release date the platform's format allows: year, year-month or
\* year-month-day with month and day in range.
ValidDate(rd) ==
    /\ Len(rd) \in 1..3
    /\ rd[1] >= 1
    /\ Len(rd) >= 2 => rd[2] \in 1..12
    /\ Len(rd) >= 3 => rd[3] \in 1..31

\* C21: every track of the collection handed to the sorter carries a valid
\* release date and a track number that is a positive integer, whatever
\* release_date and track_number the platform returned.
C21_TracksWellFormed ==
    SortDone =>
        \A k \in 1..Len(collected) :
            /\ ValidDate(collected[k].albumReleaseDate)
            /\ collected[k].albumTrackNumber \in Nat
            /\ collected[k].albumTrackNumber >= 1

\* The positions of the events with percent 100 on the progress stream.
CompleteEvents == {k \in 1..Len(progress) : progress[k].percent = 100}

\* C22: the percent-100 event is emitted at most once in a run; when it is
\* on the stream it is the last event, the playlist has been created, every
\* append batch has returned successfully (the playlist holds the whole
\* sequence), and no progress event follows it.
C22_CompleteEventOnceAndLast ==
    /\ [](/\ Cardinality(CompleteEvents) <= 1
          /\ CompleteEvents # {} =>
                /\ CompleteEvents = {Len(progress)}
                /\ outcome = "complete"
                /\ failedAt = "none"
                /\ calls["create"] = 1
                /\ playlists = 1
                /\ calls["append"] = CeilDiv(Len(trackURIs), BATCH_SIZE)
                /\ Len(appendSizes) = calls["append"]
                /\ playlist = trackURIs)
    /\ [][CompleteEvents # {} => progress' = progress]_vars

C22_Witness ==
    /\ CompleteEvents = {Len(progress)}
    /\ progress[Len(progress) - 1] = AllAddedEvent
    /\ calls["append"] = 1
    /\ Len(playlist) > limit
    /\ startsDone = MaxStarts

\* C23: in every run the label that names the created playlist is the label
\* the run searched with, also when a /start request arrives while the run
\* is in progress.
C23_RunKeepsItsLabel ==
    calls["create"] > 0 => playlistLabel = searchLabel

\* The positions of the events with percent 50 on the progress stream.
NoTracksEvents == {k \in 1..Len(progress) : progress[k].percent = 50}

\* C24: a run whose collected track list is empty, because no release was
\* found or because every release had no track, ends at the guard: no
\* playlist is created and no append request made, one event with percent
\* 50 is emitted, as the last one, the answer is 'No tracks found.', and the
\* percent-100 event never comes.  A create request is only made for a
\* collection that has tracks.
C24_EmptyCollectionEndsRun ==
    /\ [](/\ outcome = "noTracks" =>
                /\ pc = "done"
                /\ allTracks = <<>>
                /\ calls["tracks"] = Len(albums)
                /\ calls["create"] = 0
                /\ calls["append"] = 0
                /\ playlists = 0
                /\ NoTracksEvents = {Len(progress)}
                /\ responses = <<"No tracks found.">>
                /\ failedAt = "none"
                /\ \A k \in 1..Len(progress) : progress[k].percent # 100
          /\ calls["create"] > 0 => Len(trackURIs) > 0
          /\ outcome # "noTracks" => NoTracksEvents = {})
    /\ [][outcome = "noTracks" =>
              UNCHANGED <<progress, responses, calls, playlists, playlist, outcome>>]_vars

C24_Witness ==
    /\ outcome = "noTracks"
    /\ tracksPer = 0
    /\ Len(albums) = limit + 1
    /\ calls["tracks"] = limit + 1
    /\ progress[Len(progress)] = NoTracksEvent

\* The answer each way out of the handler sends.
ResponseOf(o) ==
    CASE o = "noCode"   -> "No authorization code"
      [] o = "noTracks" -> "No tracks found."
      [] o = "complete" -> "Processing Complete"
      [] o = "failed"   -> "Error during processing"

\* C25: a /callback request is answered exactly once on every path: nothing
\* is sent while the handler runs, one response is sent when it ends without
\* code, without tracks, with the playlist complete or with a failed API
\* call, and nothing is sent after that.
C25_ExactlyOneResponse ==
    /\ [](/\ Len(responses) <= 1
          /\ pc # "done" => (responses = <<>> /\ outcome = "none")
          /\ pc = "done" =>
                /\ outcome \in {"noCode", "noTracks", "complete", "failed"}
                /\ responses = <<ResponseOf(outcome)>>
                /\ (outcome = "failed") <=> (failedAt # "none"))
    /\ [][pc = "done" => responses' = responses]_vars

C25_Witness ==
    /\ pc = "done"
    /\ outcome = "failed"
    /\ failedAt = "append"
    /\ responses = <<"Error during processing">>
    /\ Len(playlist) = 0

\* The ways a run that had an authorization code can end.
TerminalOutcomes == {"complete", "noTracks", "failed"}

\* C26: when every API call returns, with success or with failure, and the
\* search total is the same on every page, a run that received an
\* authorization code ends: it reaches one of the outcomes complete,
\* no-tracks and failed, and the outcome it has reached it keeps.
C26_RunTerminates ==
    /\ (pc = "awaitToken") ~> (pc = "done" /\ outcome \in TerminalOutcomes)
    /\ [][outcome # "none" => (outcome' = outcome /\ pc' = "done")]_vars
    /\ [](pc # "done" => outcome = "none")

C26_Witness ==
    /\ pc = "done"
    /\ outcome = "complete"
    /\ ConstantTotal
    /\ reported = <<limit + 1, limit + 1>>
    /\ calls["token"] = 1
    /\ calls["append"] = 1

\* C27: a /callback request that carries no authorization code makes no API
\* call and emits no progress event; its one effect is the answer 'No
\* authorization code provided', and nothing happens after it.
C27_NoCodeOnlyAnswers ==
    /\ [](outcome = "noCode" =>
             /\ pc = "done"
             /\ calls = NoCalls
             /\ pending = NothingPending
             /\ progress = <<>>
             /\ responses = <<"No authorization code">>
             /\ playlists = 0
             /\ accessToken = "none")
    /\ [][outcome = "noCode" => UNCHANGED <<calls, progress, responses, pending, pc>>]_vars

C27_Witness ==
    /\ outcome = "noCode"
    /\ responses = <<"No authorization code">>
    /\ startsDone = MaxStarts
    /\ currentLabel = "B"

=============================================================================
